---------------------------- MODULE Spec2Model ----------------------------
(***************************************************************************)
(* Model of jQuery-star-rating.js: the star rating widget, its jQuery      *)
(* plugin wrapper $.fn.starRating, and the delegated pointer handlers the  *)
(* widget binds on its container.                                          *)
(*                                                                         *)
(* A container element holds a sequence of child nodes.  A node is a       *)
(* record [tag, cls, kids]: its tag name, its set of CSS classes and, for  *)
(* a list, its <li> children.  An element of the container's subtree is    *)
(* named by a path: <<i>> is the i-th child, <<i, j>> the j-th kid of the  *)
(* i-th child.  The <i class="fa fa-star"> inside a star holds no state    *)
(* and matches no selector of the widget, so it is left out; a pointer     *)
(* event on it bubbles to its <li>, which is the delegate target.          *)
(***************************************************************************)
EXTENDS Integers, Sequences, FiniteSets, TLC

\* Largest starCount an options object passes; a call without starCount gets
\* the default.
MaxStars == 2
\* Longest content the host page put in the container before the plugin ran.
MaxPrior == 1

\* src line 44
pluginName == "starRating"
\* key under which the instance is stored in the element's data
pluginKey == "plugin_starRating"
\* a key of the host page's own data on the element
hostKey == "hostKey"
\* src line 264
defaultStarCount == 5
\* src line 258
getters == {"get"}

\* The containers of the page.
Containers == {"a", "b"}

VARIABLES
  content,    \* content[e]: the child nodes of container e
  handlers,   \* handlers[e]: the event handlers bound on e, in bind order
  data,       \* data[e]: jQuery's data of e, a function from keys to values
  ret,        \* what the last plugin call returned (or threw)
  last        \* the last operation: its kind, target and arguments

vars == <<content, handlers, data, ret, last>>

\* The page state the plugin reads and writes.
Page == [content |-> content, handlers |-> handlers, data |-> data]

\* The page after a step.
PageNext == [content |-> content', handlers |-> handlers', data |-> data']

-----------------------------------------------------------------------------
(* DOM and jQuery helpers *)

Node(tag, cls, kids) == [tag |-> tag, cls |-> cls, kids |-> kids]

\* All element paths below a container whose children are c.
Descendants(c) ==
  {<<i>> : i \in DOMAIN c} \cup
  UNION {{<<i, j>> : j \in DOMAIN c[i].kids} : i \in DOMAIN c}

At(c, p) == IF Len(p) = 1 THEN c[p[1]] ELSE c[p[1]].kids[p[2]]

SameParent(p, q) ==
  /\ Len(p) = Len(q)
  /\ Len(p) = 2 => p[1] = q[1]

\* The siblings of p (p included) at positions lo..hi of their parent.
SiblingsAt(p, lo, hi) ==
  IF Len(p) = 1 THEN {<<i>> : i \in lo..hi} ELSE {<<p[1], j>> : j \in lo..hi}

\* How many children the parent of p has.
SiblingCount(c, p) == IF Len(p) = 1 THEN Len(c) ELSE Len(c[p[1]].kids)

\* jQuery .prevAll() / .nextAll() of a set of elements: the siblings before / after.
prevAll(c, P) == UNION {SiblingsAt(p, 1, p[Len(p)] - 1) : p \in P}

nextAll(c, P) == UNION {SiblingsAt(p, p[Len(p)] + 1, SiblingCount(c, p)) : p \in P}

\* jQuery .find(tag): the descendants with that tag.
find(c, tag) == {p \in Descendants(c) : At(c, p).tag = tag}

\* Position of p among its siblings of the same tag (CSS :nth-of-type).
TypeIndex(c, p) ==
  Cardinality({q \in Descendants(c) :
                 /\ SameParent(p, q)
                 /\ At(c, q).tag = At(c, p).tag
                 /\ q[Len(q)] <= p[Len(p)]})

\* The selector "li:eq(n)" in place of "li:nth-of-type(n)": the li at the 0-based
\* position n among the li of the container.
findNthLi_eq(c, n) == {p \in find(c, "li") : TypeIndex(c, p) = n + 1}

\* .find("li:nth-of-type(" + n + ")")
findNthLi(c, n) == {p \in find(c, "li") : TypeIndex(c, p) = n}

\* A list [i \in 1..n |-> item] as a sequence value.
asSeq(f) == f \o <<>>

addClass(c, P, k) ==
  asSeq([i \in DOMAIN c |->
     Node(c[i].tag,
          IF <<i>> \in P THEN c[i].cls \cup {k} ELSE c[i].cls,
          asSeq([j \in DOMAIN c[i].kids |->
             IF <<i, j>> \in P
               THEN Node(c[i].kids[j].tag, c[i].kids[j].cls \cup {k}, <<>>)
               ELSE c[i].kids[j]]))])

removeClass(c, P, k) ==
  asSeq([i \in DOMAIN c |->
     Node(c[i].tag,
          IF <<i>> \in P THEN c[i].cls \ {k} ELSE c[i].cls,
          asSeq([j \in DOMAIN c[i].kids |->
             IF <<i, j>> \in P
               THEN Node(c[i].kids[j].tag, c[i].kids[j].cls \ {k}, <<>>)
               ELSE c[i].kids[j]]))])

\* $wrapper.find("li").index(el): 0-based position of el among the <li> of the
\* list at position w of the container, -1 when el is not one of them.
indexIn(w, p) == IF Len(p) = 2 /\ p[1] = w THEN p[2] - 1 ELSE -1


\* parseInt(n, 10) of a non-negative integer: its decimal digits, read back.
RECURSIVE digitsOf(_)
digitsOf(n) == IF n < 10 THEN <<n>> ELSE Append(digitsOf(n \div 10), n % 10)

RECURSIVE readDigits(_)
readDigits(ds) ==
  IF ds = <<>> THEN 0
  ELSE 10 * readDigits(SubSeq(ds, 1, Len(ds) - 1)) + ds[Len(ds)]

parseInt(n) == readDigits(digitsOf(n))

-----------------------------------------------------------------------------
(* Values *)

\* this.count is null or a number: null is the empty set, the number n is {n}.
null == {}
Num(n) == {n}

\* Return values of $.fn.starRating.
Undefined == [kind |-> "undefined", sel |-> <<>>, v |-> null]
Collection(sel) == [kind |-> "collection", sel |-> sel, v |-> null]
Value(v) == [kind |-> "value", sel |-> <<>>, v |-> v]
TypeError == [kind |-> "TypeError", sel |-> <<>>, v |-> null]

\* An object with no own property.
EmptyObject == [k \in {} |-> 0]

\* $.fn.starRating.defaults
defaults == [starCount |-> defaultStarCount]

\* $.extend({}, defaults, options): the later object's properties win.
extend(base, props) == props @@ base

\* A handler bound with $el.on(type + "." + ns, selector, fn); wrapper is the
\* position in the container of the list the handler's closure holds as $wrapper
\* (0 for a handler that is not the plugin's).
Handler(type, ns, selector, wrapper) ==
  [type |-> type, ns |-> ns, selector |-> selector, wrapper |-> wrapper]

\* <li class="star"><i class="fa fa-star fa-fw"></i></li>
StarLi == Node("li", {"star"}, <<>>)

-----------------------------------------------------------------------------
(* Plugin.prototype *)

\* _build with $el.html($wrapper) in place of $el.append($wrapper).
_build_replacing(S, e, this) ==
  LET n == this.options.starCount
      types == <<"mouseover", "mouseout", "click">>
      bound == asSeq([k \in 1..(3 * n) |->
                  Handler(types[((k - 1) % 3) + 1], pluginName, "li", 1)])
      wrapper == Node("ul", {"star-rating"}, asSeq([i \in 1..n |-> StarLi]))
  IN [S EXCEPT !.handlers[e] = @ \o bound,
               !.content[e] = <<wrapper>>]

_build(S, e, this) ==
  LET n == this.options.starCount
      w == Len(S.content[e]) + 1
      types == <<"mouseover", "mouseout", "click">>
      bound == asSeq([k \in 1..(3 * n) |->
                  Handler(types[((k - 1) % 3) + 1], pluginName, "li", w)])
      wrapper == Node("ul", {"star-rating"}, asSeq([i \in 1..n |-> StarLi]))
  IN [S EXCEPT !.handlers[e] = @ \o bound,
               !.content[e] = Append(@, wrapper)]

_init(S, e, this) == _build(S, e, this)

\* function Plugin(element, options)
Plugin(S, e, options) ==
  LET this == [count |-> null, options |-> extend(defaults, options.props)]
  IN [page |-> _init(S, e, this), this |-> this]

\* _setStarCount without its last statement, this.count = count.
_setStarCount_noRecord(S, e, count) ==
  LET c == S.content[e]
      lastStar == findNthLi(c, count)
      c1 == addClass(c, prevAll(c, lastStar) \cup lastStar, "selected")
      c2 == removeClass(c1, nextAll(c1, lastStar), "selected")
  IN [S EXCEPT !.content[e] = c2]

\* _setStarCount clearing every mark before it marks the stars up to count.
_setStarCount_clearingFirst(S, e, count) ==
  LET c == S.content[e]
      c0 == removeClass(c, find(c, "li"), "selected")
      lastStar == findNthLi(c0, count)
      c1 == addClass(c0, prevAll(c0, lastStar) \cup lastStar, "selected")
  IN [S EXCEPT !.content[e] = c1,
               !.data[e][pluginKey].count = Num(count)]

\* $lastStar = this.$el.find("li:nth-of-type(" + count + ")") ... this.count = count
_setStarCount(S, e, count) ==
  LET c == S.content[e]
      lastStar == findNthLi(c, count)
      c1 == addClass(c, prevAll(c, lastStar) \cup lastStar, "selected")
      c2 == removeClass(c1, nextAll(c1, lastStar), "selected")
  IN [S EXCEPT !.content[e] = c2,
               !.data[e][pluginKey].count = Num(count)]

\* _resetStarCount without its last statement, this.count = null.
_resetStarCount_keepCount(S, e) ==
  LET c == S.content[e]
  IN [S EXCEPT !.content[e] = removeClass(c, find(c, "li"), "selected")]

\* _resetStarCount without its first statement, the removal of the marks.
_resetStarCount_keepMarks(S, e) ==
  [S EXCEPT !.data[e][pluginKey].count = null]

_resetStarCount(S, e) ==
  LET c == S.content[e]
  IN [S EXCEPT !.content[e] = removeClass(c, find(c, "li"), "selected"),
               !.data[e][pluginKey].count = null]

\* _disableStarCount with $("ul") in place of this.$el.find("ul"): every list of
\* the document gets the class.
_disableStarCount_document(S, e) ==
  [S EXCEPT !.content =
     [d \in DOMAIN S.content |->
        addClass(S.content[d], find(S.content[d], "ul"), "disable")]]

_disableStarCount(S, e) ==
  LET c == S.content[e]
  IN [S EXCEPT !.content[e] = addClass(c, find(c, "ul"), "disable")]

\* _enableStarCount removing the class "disabled", which disable() never adds.
_enableStarCount_otherClass(S, e) ==
  LET c == S.content[e]
  IN [S EXCEPT !.content[e] = removeClass(c, find(c, "ul"), "disabled")]

_enableStarCount(S, e) ==
  LET c == S.content[e]
  IN [S EXCEPT !.content[e] = removeClass(c, find(c, "ul"), "disable")]

\* destroy without $el.removeData().
destroy_keepData(S, e) ==
  [S EXCEPT !.handlers[e] = SelectSeq(@, LAMBDA h : h.ns # pluginName),
            !.content[e] = <<>>]

\* $el.off(".starRating"); $el.removeData(); $el.html("")
destroy(S, e) ==
  [S EXCEPT !.handlers[e] = SelectSeq(@, LAMBDA h : h.ns # pluginName),
            !.data[e] = EmptyObject,
            !.content[e] = <<>>]

set(S, e, count) == _setStarCount(S, e, count)

reset(S, e) == _resetStarCount(S, e)

get(S, e) == S.data[e][pluginKey].count

disable(S, e) == _disableStarCount(S, e)

enable(S, e) == _enableStarCount(S, e)

\* The function-valued properties of an instance that Plugin.prototype defines.
\* (Those inherited from Object.prototype, such as toString, leave the page alone
\* and are not listed.)
methodNames ==
  {"_init", "destroy", "set", "reset", "get", "disable", "enable", "_build",
   "_setStarCount", "_resetStarCount", "_disableStarCount", "_enableStarCount"}

\* instance[name].apply(instance, args): the page afterwards.
applyMethod(S, e, name, args) ==
  LET this == S.data[e][pluginKey]
  IN CASE name = "destroy" -> destroy(S, e)
       [] name = "set" -> set(S, e, args[1])
       [] name = "reset" -> reset(S, e)
       [] name = "disable" -> disable(S, e)
       [] name = "enable" -> enable(S, e)
       [] name = "_init" -> _init(S, e, this)
       [] name = "_build" -> _build(S, e, this)
       [] name = "_setStarCount" -> _setStarCount(S, e, args[1])
       [] name = "_resetStarCount" -> _resetStarCount(S, e)
       [] name = "_disableStarCount" -> _disableStarCount(S, e)
       [] name = "_enableStarCount" -> _enableStarCount(S, e)
       [] OTHER -> S

\* instance[name].apply(instance, args): the value it returns.
methodResult(S, e, name) ==
  IF name = "get" THEN Value(get(S, e)) ELSE Undefined

-----------------------------------------------------------------------------
(* Delegated pointer handlers bound by _build *)

\* The mouseover handler adding the class of the click handler, "selected".
onMouseover_selected(S, e, t) ==
  LET c == S.content[e]
  IN [S EXCEPT !.content[e] = addClass(c, prevAll(c, {t}) \cup {t}, "selected")]

\* mouseover.starRating on "li"
onMouseover(S, e, t) ==
  LET c == S.content[e]
  IN [S EXCEPT !.content[e] = addClass(c, prevAll(c, {t}) \cup {t}, "hover")]

\* The mouseout handler without $(this).nextAll().add(this).removeClass("hover").
onMouseout_prevOnly(S, e, t) ==
  LET c == S.content[e]
  IN [S EXCEPT !.content[e] = removeClass(c, prevAll(c, {t}) \cup {t}, "hover")]

\* mouseout.starRating on "li"
onMouseout(S, e, t) ==
  LET c == S.content[e]
      c1 == removeClass(c, prevAll(c, {t}) \cup {t}, "hover")
  IN [S EXCEPT !.content[e] = removeClass(c1, nextAll(c1, {t}) \cup {t}, "hover")]

\* The click handler recording the 0-based index (no "+ 1").
onClick_zeroBased(S, e, t, h) ==
  LET c == S.content[e]
      c1 == addClass(c, prevAll(c, {t}) \cup {t}, "selected")
      c2 == removeClass(c1, nextAll(c1, {t}), "selected")
  IN [S EXCEPT !.content[e] = c2,
               !.data[e][pluginKey].count = Num(parseInt(indexIn(h.wrapper, t)))]

\* The click handler without $(this).nextAll().removeClass("selected").
onClick_keepAbove(S, e, t, h) ==
  LET c == S.content[e]
      c1 == addClass(c, prevAll(c, {t}) \cup {t}, "selected")
  IN [S EXCEPT !.content[e] = c1,
               !.data[e][pluginKey].count = Num(parseInt(indexIn(h.wrapper, t) + 1))]

\* click.starRating on "li"; h.wrapper is the closure's $wrapper
onClick(S, e, t, h) ==
  LET c == S.content[e]
      c1 == addClass(c, prevAll(c, {t}) \cup {t}, "selected")
      c2 == removeClass(c1, nextAll(c1, {t}), "selected")
  IN [S EXCEPT !.content[e] = c2,
               !.data[e][pluginKey].count = Num(parseInt(indexIn(h.wrapper, t) + 1))]

\* One handler of the container run for an event of the given type on target t:
\* a delegated handler runs when the target matches its selector.
runHandler(S, e, h, type, t) ==
  IF h.type # type \/ h.ns # pluginName \/ At(S.content[e], t).tag # h.selector
    THEN S
    ELSE CASE type = "mouseover" -> onMouseover(S, e, t)
           [] type = "mouseout" -> onMouseout(S, e, t)
           [] type = "click" -> onClick(S, e, t, h)
           [] OTHER -> S

\* jQuery's event dispatch: the handlers bound when the event fires, in bind order.
\* (S1 ranges over the one page the first handler leaves.)
RECURSIVE runHandlers(_, _, _, _, _)
runHandlers(S, e, hs, type, t) ==
  IF hs = <<>> THEN S
  ELSE CHOOSE S2 \in {runHandlers(S1, e, Tail(hs), type, t) :
                        S1 \in {runHandler(S, e, Head(hs), type, t)}} : TRUE

trigger(S, e, type, t) == runHandlers(S, e, S.handlers[e], type, t)

-----------------------------------------------------------------------------
(* $.fn.starRating *)

\* options[0] of the command names the model passes.
charAt0(name) ==
  CASE name \in {"_init", "_build", "_setStarCount", "_resetStarCount",
                 "_disableStarCount", "_enableStarCount"} -> "_"
    [] name \in {"init"} -> "i"
    [] name \in {"set"} -> "s"
    [] name \in {"get"} -> "g"
    [] name \in {"reset"} -> "r"
    [] name \in {"disable", "destroy"} -> "d"
    [] name \in {"enable"} -> "e"
    [] name \in {"bogus"} -> "b"

\* The name filter without the test of the first character.
isPublicName_initOnly(name) == name # "init"

\* The name filter of the command branch.
isPublicName(name) == charAt0(name) # "_" /\ name # "init"

\* instance instanceof Plugin
hasInstance(S, e) == pluginKey \in DOMAIN S.data[e]

\* The constructor branch without the test for a stored instance.
RECURSIVE createEach_noGuard(_, _, _)
createEach_noGuard(S, sel, options) ==
  IF sel = <<>> THEN S
  ELSE LET e == Head(sel)
           made == Plugin(S, e, options)
           S1 == [made.page EXCEPT !.data[e] = (pluginKey :> made.this) @@ @]
       IN createEach_noGuard(S1, Tail(sel), options)

\* this.each(function () { if (!$.data(this, key)) $.data(this, key, new Plugin(this, options)); })
RECURSIVE createEach(_, _, _)
createEach(S, sel, options) ==
  IF sel = <<>> THEN S
  ELSE LET e == Head(sel)
           made == Plugin(S, e, options)
           S1 == IF hasInstance(S, e)
                   THEN S
                   ELSE [made.page EXCEPT
                           !.data[e] = (pluginKey :> made.this) @@ @]
       IN createEach(S1, Tail(sel), options)

\* The each branch invoking the method on this[0] only.
invokeEach_firstOnly(S, sel, name, args) ==
  IF sel # <<>> /\ hasInstance(S, Head(sel)) /\ name \in methodNames
    THEN applyMethod(S, Head(sel), name, args)
    ELSE S

\* this.each(function () { ... instance[options].apply(instance, args) ... })
RECURSIVE invokeEach(_, _, _, _)
invokeEach(S, sel, name, args) ==
  IF sel = <<>> THEN S
  ELSE LET e == Head(sel)
           S1 == IF hasInstance(S, e) /\ name \in methodNames
                   THEN applyMethod(S, e, name, args)
                   ELSE S
       IN invokeEach(S1, Tail(sel), name, args)

\* $(sel).starRating(options, ...args): the page afterwards and the return value.
\* options is [type, props, str]: typeof options, and its properties (an object)
\* or its characters (a string).
starRating(S, sel, options, args) ==
  IF options.type \in {"undefined", "object"}
    THEN [page |-> createEach(S, sel, options), ret |-> Collection(sel)]
  ELSE IF options.type = "string" /\ isPublicName(options.str)
    THEN IF Len(args) = 0 /\ options.str \in getters
           THEN IF sel # <<>> /\ hasInstance(S, sel[1])
                  THEN [page |-> applyMethod(S, sel[1], options.str, args),
                        ret |-> methodResult(S, sel[1], options.str)]
                  ELSE [page |-> S, ret |-> TypeError]
           ELSE [page |-> invokeEach(S, sel, options.str, args),
                 ret |-> Collection(sel)]
  ELSE [page |-> S, ret |-> Undefined]

-----------------------------------------------------------------------------
(* The page and its inputs *)

\* What the host page may have put in a container before the plugin runs: up to
\* n paragraphs.  (Host content is modelled as elements that are not lists.)
RECURSIVE priorContents(_)
priorContents(n) ==
  IF n = 0 THEN {<<>>}
  ELSE LET shorter == priorContents(n - 1)
       IN shorter \cup {Append(c, Node("p", {}, <<>>)) : c \in shorter}

\* A click handler the host page bound on the container, outside the namespace.
hostHandler == Handler("click", "", "", 0)

\* The argument of a create call that names its starCount: {starCount: n}.
explicitOptions ==
  {[type |-> "object", props |-> [starCount |-> n], str |-> ""] : n \in 1..MaxStars}

\* The argument of a create call that leaves starCount out: nothing, or {}.
defaultOptions ==
  {[type |-> "undefined", props |-> EmptyObject, str |-> ""],
   [type |-> "object", props |-> EmptyObject, str |-> ""]}

command(name) == [type |-> "string", props |-> EmptyObject, str |-> name]

\* The ratings passed to set: the range of every widget built from explicit
\* options, and one below and one above it.
setArgs == 0..(MaxStars + 1)

\* Names the dispatch is called with that are not public methods.
privateNames ==
  {"_init", "_build", "_setStarCount", "_resetStarCount", "_disableStarCount",
   "_enableStarCount", "init"}

\* The collections $(selector) the page calls the plugin on.
selections == {<<"a">>}

\* The record of an operation that left the page as S: had tells whether its
\* (first) container held an instance when the operation began, changed whether
\* the operation changed the page.
Call(sel, options, args, S) ==
  [kind |-> "call", sel |-> sel, name |-> options.str, type |-> options.type,
   props |-> options.props, args |-> args, target |-> <<>>,
   had |-> hasInstance(Page, sel[1]), changed |-> S # Page]

Event(e, type, t, S) ==
  [kind |-> "event", sel |-> <<e>>, name |-> type, type |-> "", props |-> EmptyObject,
   args |-> <<>>, target |-> t, had |-> hasInstance(Page, e), changed |-> S # Page]

NoOp ==
  [kind |-> "none", sel |-> <<>>, name |-> "", type |-> "", props |-> EmptyObject,
   args |-> <<>>, target |-> <<>>, had |-> FALSE, changed |-> FALSE]

\* The page before the plugin runs on it: container "a" holds the host's content,
\* one handler the host bound and one datum the host stored; "b" is empty.
Init ==
  /\ \E c \in priorContents(MaxPrior) :
       content = [e \in Containers |-> IF e = "a" THEN c ELSE <<>>]
  /\ handlers = [e \in Containers |-> IF e = "a" THEN <<hostHandler>> ELSE <<>>]
  /\ data = [e \in Containers |-> IF e = "a" THEN (hostKey :> 1) ELSE EmptyObject]
  /\ ret = Undefined
  /\ last = NoOp

Create(sel, options) ==
  \E r \in {starRating(Page, sel, options, <<>>)} :
     /\ content' = r.page.content
     /\ handlers' = r.page.handlers
     /\ data' = r.page.data
     /\ ret' = r.ret
     /\ last' = Call(sel, options, <<>>, r.page)

CallSet(sel) ==
  \E n \in setArgs :
    \E r \in {starRating(Page, sel, command("set"), <<n>>)} :
       /\ content' = r.page.content
       /\ handlers' = r.page.handlers
       /\ data' = r.page.data
       /\ ret' = r.ret
       /\ last' = Call(sel, command("set"), <<n>>, r.page)

CallGet(sel) ==
  \E r \in {starRating(Page, sel, command("get"), <<>>)} :
     /\ content' = r.page.content
     /\ handlers' = r.page.handlers
     /\ data' = r.page.data
     /\ ret' = r.ret
     /\ last' = Call(sel, command("get"), <<>>, r.page)

CallReset(sel) ==
  \E r \in {starRating(Page, sel, command("reset"), <<>>)} :
     /\ content' = r.page.content
     /\ handlers' = r.page.handlers
     /\ data' = r.page.data
     /\ ret' = r.ret
     /\ last' = Call(sel, command("reset"), <<>>, r.page)

CallDisable(sel) ==
  \E r \in {starRating(Page, sel, command("disable"), <<>>)} :
     /\ content' = r.page.content
     /\ handlers' = r.page.handlers
     /\ data' = r.page.data
     /\ ret' = r.ret
     /\ last' = Call(sel, command("disable"), <<>>, r.page)

CallEnable(sel) ==
  \E r \in {starRating(Page, sel, command("enable"), <<>>)} :
     /\ content' = r.page.content
     /\ handlers' = r.page.handlers
     /\ data' = r.page.data
     /\ ret' = r.ret
     /\ last' = Call(sel, command("enable"), <<>>, r.page)

CallDestroy(sel) ==
  \E r \in {starRating(Page, sel, command("destroy"), <<>>)} :
     /\ content' = r.page.content
     /\ handlers' = r.page.handlers
     /\ data' = r.page.data
     /\ ret' = r.ret
     /\ last' = Call(sel, command("destroy"), <<>>, r.page)

CallUnknown(sel) ==
  \E r \in {starRating(Page, sel, command("bogus"), <<>>)} :
     /\ content' = r.page.content
     /\ handlers' = r.page.handlers
     /\ data' = r.page.data
     /\ ret' = r.ret
     /\ last' = Call(sel, command("bogus"), <<>>, r.page)

CallPrivate(sel) ==
  \E name \in privateNames :
    \E r \in {starRating(Page, sel, command(name), <<1>>)} :
       /\ content' = r.page.content
       /\ handlers' = r.page.handlers
       /\ data' = r.page.data
       /\ ret' = r.ret
       /\ last' = Call(sel, command(name), <<1>>, r.page)

MouseOver(e) ==
  \E t \in Descendants(content[e]) :
    \E S \in {trigger(Page, e, "mouseover", t)} :
       /\ content' = S.content
       /\ handlers' = S.handlers
       /\ data' = S.data
       /\ ret' = ret
       /\ last' = Event(e, "mouseover", t, S)

MouseOut(e) ==
  \E t \in Descendants(content[e]) :
    \E S \in {trigger(Page, e, "mouseout", t)} :
       /\ content' = S.content
       /\ handlers' = S.handlers
       /\ data' = S.data
       /\ ret' = ret
       /\ last' = Event(e, "mouseout", t, S)

Click(e) ==
  \E t \in Descendants(content[e]) :
    \E S \in {trigger(Page, e, "click", t)} :
       /\ content' = S.content
       /\ handlers' = S.handlers
       /\ data' = S.data
       /\ ret' = ret
       /\ last' = Event(e, "click", t, S)

\* The page's commands on its widgets.
Commands ==
  \E sel \in selections :
    \/ CallSet(sel)
    \/ CallGet(sel)
    \/ CallReset(sel)
    \/ CallDisable(sel)
    \/ CallEnable(sel)
    \/ CallDestroy(sel)
    \/ CallPrivate(sel)
    \/ CallUnknown(sel)

\* The user's pointer moving over the elements of a container.
Hovers == \E e \in {"a"} : MouseOver(e) \/ MouseOut(e)

\* The user's clicks on the elements of a container.
Clicks == \E e \in {"a"} : Click(e)

\* A page that names starCount in every create call.
Next ==
  \/ \E sel \in selections, options \in explicitOptions : Create(sel, options)
  \/ Commands
  \/ Hovers
  \/ Clicks

Spec == Init /\ [][Next]_vars

\* A page that relies on the default starCount (hovering, which leaves the
\* rating and the instance alone, is left out).
NextDefault ==
  \/ \E sel \in selections, options \in defaultOptions : Create(sel, options)
  \/ Commands
  \/ Clicks

SpecDefault == Init /\ [][NextDefault]_vars

-----------------------------------------------------------------------------
(* A page with two widgets *)

\* The ratings within the range of every widget of the collection.
inRangeArgs(S, sel) ==
  {n \in 1..MaxStars :
     \A i \in DOMAIN sel : hasInstance(S, sel[i]) => n <= S.data[sel[i]][pluginKey].options.starCount}

\* $(sel).starRating("set", n) with n within the range.
CallSetInRange(sel) ==
  \E n \in inRangeArgs(Page, sel) :
    \E r \in {starRating(Page, sel, command("set"), <<n>>)} :
       /\ content' = r.page.content
       /\ handlers' = r.page.handlers
       /\ data' = r.page.data
       /\ ret' = r.ret
       /\ last' = Call(sel, command("set"), <<n>>, r.page)

\* $(sel).starRating("get", 1): get with an argument goes through each().
CallGetWithArgument(sel) ==
  \E r \in {starRating(Page, sel, command("get"), <<1>>)} :
     /\ content' = r.page.content
     /\ handlers' = r.page.handlers
     /\ data' = r.page.data
     /\ ret' = r.ret
     /\ last' = Call(sel, command("get"), <<1>>, r.page)

\* The options of the create calls of the two-widget page: {starCount: MaxStars}
\* and, for a widget of one star, {starCount: 1}.
pairOptions == [type |-> "object", props |-> [starCount |-> MaxStars], str |-> ""]

oneStarOptions == [type |-> "object", props |-> [starCount |-> 1], str |-> ""]

\* Two distinct, empty containers, neither inside the other.
InitPair ==
  /\ content = [e \in Containers |-> <<>>]
  /\ handlers = [e \in Containers |-> <<>>]
  /\ data = [e \in Containers |-> EmptyObject]
  /\ ret = Undefined
  /\ last = NoOp

\* The commands of the page on the widgets of the collection sel.
PairCommands(sel) ==
  \/ CallSetInRange(sel)
  \/ CallGet(sel)
  \/ CallGetWithArgument(sel)
  \/ CallReset(sel)
  \/ CallDisable(sel)
  \/ CallEnable(sel)
  \/ CallDestroy(sel)

\* A page with a widget of MaxStars stars on "a" and a widget of one star on "b"
\* that addresses each widget on its own, while the user points at and clicks on
\* both.
NextPair ==
  \/ Create(<<"a">>, pairOptions)
  \/ Create(<<"b">>, oneStarOptions)
  \/ \E sel \in {<<"a">>, <<"b">>} : PairCommands(sel)
  \/ \E e \in Containers : MouseOver(e) \/ MouseOut(e) \/ Click(e)

SpecPair == InitPair /\ [][NextPair]_vars

\* A page that also addresses both widgets at once, $("#a, #b"), while the user
\* clicks on both.
NextBatch ==
  \/ \E sel \in {<<"a">>, <<"b">>, <<"a", "b">>} :
       Create(sel, pairOptions) \/ PairCommands(sel)
  \/ \E e \in Containers : Click(e)

SpecBatch == InitPair /\ [][NextBatch]_vars

-----------------------------------------------------------------------------
(* A page that keeps its ratings in range *)

\* The page of Spec when every set passes a rating within 1..starCount (and no
\* call names a private or unknown method).
NextInRange ==
  \/ \E sel \in selections, options \in explicitOptions : Create(sel, options)
  \/ \E sel \in selections :
       \/ CallSetInRange(sel)
       \/ CallGet(sel)
       \/ CallReset(sel)
       \/ CallDisable(sel)
       \/ CallEnable(sel)
       \/ CallDestroy(sel)
  \/ Hovers
  \/ Clicks

SpecInRange == Init /\ [][NextInRange]_vars

-----------------------------------------------------------------------------
(* Observations *)

\* The rendered stars of container e: the <li> of the list _build appended.
stars(S, e) ==
  LET c == S.content[e]
      lists == {i \in DOMAIN c : c[i].tag = "ul"}
  IN IF lists = {} THEN <<>> ELSE c[CHOOSE i \in lists : TRUE].kids

\* The positions of the stars that carry class k.
marked(S, e, k) == {j \in DOMAIN stars(S, e) : k \in stars(S, e)[j].cls}

selectedStars(S, e) == marked(S, e, "selected")

hoveredStars(S, e) == marked(S, e, "hover")

\* The list carries the class that disable() adds.
isDisabled(S, e) ==
  \E i \in DOMAIN S.content[e] :
    S.content[e][i].tag = "ul" /\ "disable" \in S.content[e][i].cls

\* this.options.starCount of the stored instance.
starCountOf(S, e) == S.data[e][pluginKey].options.starCount

\* The handlers bound in the plugin's event namespace.
pluginHandlers(S, e) == SelectSeq(S.handlers[e], LAMBDA h : h.ns = pluginName)

\* What $(e).starRating("get") returns.
getCall(S, e) == starRating(S, <<e>>, command("get"), <<>>).ret

\* The element t is one of the rendered stars.
isStar(S, e, t) == Len(t) = 2 /\ "star" \in At(S.content[e], t).cls

\* The last operation, read from its record.
IsCommand(op, name) == op.kind = "call" /\ op.type = "string" /\ op.name = name

IsCreate(op) == op.kind = "call" /\ op.type \in {"undefined", "object"}

IsEvent(op, type) == op.kind = "event" /\ op.name = type

-----------------------------------------------------------------------------
(* Properties *)

\* C1: on an initialized widget, after set(n) with n in 1..starCount, whatever
\* came before, get() returns n.
C1_SetThenGet ==
  (IsCommand(last, "set") /\ last.had
     /\ last.args[1] \in 1..starCountOf(Page, last.sel[1]))
  => getCall(Page, last.sel[1]) = Value(Num(last.args[1]))

\* set(n), 1 < n <= starCount, has just run on a widget that a pointer hovers.
C1_Witness ==
  /\ IsCommand(last, "set") /\ last.had
  /\ last.args[1] \in 2..starCountOf(Page, last.sel[1])
  /\ hoveredStars(Page, last.sel[1]) # {}

\* C2: after a click on star i, exactly stars 1..i are marked selected and
\* get() returns i.
C2_ClickSelects ==
  (IsEvent(last, "click") /\ last.had /\ isStar(Page, last.sel[1], last.target))
  => /\ selectedStars(Page, last.sel[1]) = 1..last.target[2]
     /\ getCall(Page, last.sel[1]) = Value(Num(last.target[2]))

\* Star 1 of a widget with more stars has just been clicked.
C2_Witness ==
  /\ IsEvent(last, "click") /\ last.had
  /\ isStar(Page, last.sel[1], last.target)
  /\ last.target[2] = 1
  /\ Len(stars(Page, last.sel[1])) > 1

\* C3: while the widget is disabled, a click on a star does not change what
\* get() returns.
C3_DisabledClickKeepsRating ==
  [][(IsEvent(last', "click") /\ isDisabled(Page, last'.sel[1])
        /\ isStar(Page, last'.sel[1], last'.target))
     => getCall(PageNext, last'.sel[1]) = getCall(Page, last'.sel[1])]_vars

\* C4, as stated: the rating is unset or in 1..starCount, and the selected stars
\* are exactly 1..rating (none when unset).
C4_RatingInRange ==
  \A e \in Containers :
    hasInstance(Page, e) =>
      \/ get(Page, e) = null /\ selectedStars(Page, e) = {}
      \/ \E n \in 1..starCountOf(Page, e) :
           get(Page, e) = Num(n) /\ selectedStars(Page, e) = 1..n

\* C4, amended: the selected stars always form a prefix 1..k of the stars, with
\* k = 0 when the rating is unset and k = rating when the rating is in
\* 1..starCount (set records a rating outside that range as it is).
C4_MarksArePrefix ==
  \A e \in Containers :
    hasInstance(Page, e) =>
      \E k \in 0..starCountOf(Page, e) :
        /\ selectedStars(Page, e) = 1..k
        /\ get(Page, e) = null => k = 0
        /\ \A n \in 1..starCountOf(Page, e) : get(Page, e) = Num(n) => k = n

\* A rating above the range is recorded while a star is marked.
C4_Witness ==
  /\ hasInstance(Page, "a")
  /\ get(Page, "a") = Num(starCountOf(Page, "a") + 1)
  /\ selectedStars(Page, "a") # {}

\* C5: get() returns null right after create, and after reset() no star is
\* marked selected and get() returns null.
C5_UnsetAfterCreateAndReset ==
  /\ (IsCreate(last) /\ ~last.had) => getCall(Page, last.sel[1]) = Value(null)
  /\ (IsCommand(last, "reset") /\ last.had)
     => /\ selectedStars(Page, last.sel[1]) = {}
        /\ getCall(Page, last.sel[1]) = Value(null)

\* reset() has just run on a widget and changed it.
C5_Witness == IsCommand(last, "reset") /\ last.had /\ last.changed

\* C6: destroy() leaves no star, no handler of the plugin and no instance; a
\* create on a container without instance yields a fresh widget with the
\* starCount of its options.
C6_DestroyThenFresh ==
  /\ (IsCommand(last, "destroy") /\ last.had)
     => /\ find(content[last.sel[1]], "ul") \cup find(content[last.sel[1]], "li") = {}
        /\ pluginHandlers(Page, last.sel[1]) = <<>>
        /\ ~hasInstance(Page, last.sel[1])
  /\ (IsCreate(last) /\ ~last.had)
     => /\ hasInstance(Page, last.sel[1])
        /\ "starCount" \in DOMAIN last.props
             => starCountOf(Page, last.sel[1]) = last.props.starCount
        /\ Len(stars(Page, last.sel[1])) = starCountOf(Page, last.sel[1])
        /\ getCall(Page, last.sel[1]) = Value(null)
        /\ selectedStars(Page, last.sel[1]) = {}
        /\ hoveredStars(Page, last.sel[1]) = {}
        /\ ~isDisabled(Page, last.sel[1])

\* A widget has just been created on a container that destroy() had cleared
\* (destroy is what removes the host's datum).
C6_Witness ==
  /\ IsCreate(last) /\ ~last.had
  /\ hasInstance(Page, "a")
  /\ hostKey \notin DOMAIN data["a"]

\* C7: a create call on a container that holds an instance changes nothing.
C7_SecondCreateNoOp ==
  [][(IsCreate(last') /\ last'.had) => UNCHANGED <<content, handlers, data>>]_vars

\* A second create has just passed a starCount other than the widget's, on a
\* widget with a rating and a disabled list.
C7_Witness ==
  /\ IsCreate(last) /\ last.had
  /\ last.props.starCount # starCountOf(Page, "a")
  /\ get(Page, "a") # null
  /\ isDisabled(Page, "a")

\* The starCount a create call asks for.
askedStarCount(op) ==
  IF "starCount" \in DOMAIN op.props THEN op.props.starCount ELSE 5

\* C8, as stated: after create on a container without instance, the content is
\* the starCount stars and nothing else.
C8_CreateReplacesContent ==
  (IsCreate(last) /\ ~last.had)
  => /\ Len(content[last.sel[1]]) = 1
     /\ Len(stars(Page, last.sel[1])) = askedStarCount(last)

\* C8, amended: create on a container without instance appends one list of
\* starCount unmarked stars (5 without a starCount option) after the content the
\* container held, which stays.
C8_CreateAppendsStars ==
  [][(IsCreate(last') /\ ~last'.had)
     => /\ Len(content'[last'.sel[1]]) = Len(content[last'.sel[1]]) + 1
        /\ SubSeq(content'[last'.sel[1]], 1, Len(content[last'.sel[1]]))
             = content[last'.sel[1]]
        /\ Len(stars(PageNext, last'.sel[1])) = askedStarCount(last')
        /\ \A j \in DOMAIN stars(PageNext, last'.sel[1]) :
             stars(PageNext, last'.sel[1])[j].cls = {"star"}]_vars

\* A create without options has just added five stars after a paragraph.
C8_Witness ==
  /\ IsCreate(last) /\ ~last.had
  /\ "starCount" \notin DOMAIN last.props
  /\ Len(content["a"]) = 2
  /\ Len(stars(Page, "a")) = 5

\* C9: a command on a container without instance raises no error and changes
\* nothing.
C9_NoInstanceNoFailure ==
  [][(last'.kind = "call" /\ last'.type = "string" /\ ~last'.had)
     => /\ ret'.kind # "TypeError"
        /\ UNCHANGED <<content, handlers, data>>]_vars

\* C10: a call with a name that starts with an underscore, or with "init",
\* invokes nothing: the page is unchanged and the call returns undefined.
C10_PrivateNamesFiltered ==
  [][(last'.kind = "call" /\ last'.type = "string" /\ last'.name \in privateNames)
     => /\ UNCHANGED <<content, handlers, data>>
        /\ ret' = Undefined]_vars

\* "_resetStarCount" has just been passed to a widget with a rating and marks.
C10_Witness ==
  /\ IsCommand(last, "_resetStarCount") /\ last.had
  /\ get(Page, "a") # null
  /\ selectedStars(Page, "a") # {}

\* The containers of a collection.
Members(sel) == {sel[i] : i \in DOMAIN sel}

\* C11: a command on a collection of initialized containers is applied to every
\* container and returns the collection, except get without arguments, which
\* returns the rating of the first container and changes nothing.
C11_BatchCommands ==
  [][(last'.kind = "call" /\ last'.type = "string"
        /\ \A e \in Members(last'.sel) : hasInstance(Page, e))
     => /\ (IsCommand(last', "get") /\ last'.args = <<>>)
             => /\ ret' = Value(get(Page, last'.sel[1]))
                /\ UNCHANGED <<content, handlers, data>>
        /\ ~(IsCommand(last', "get") /\ last'.args = <<>>)
             => ret' = Collection(last'.sel)
        /\ IsCommand(last', "get") => UNCHANGED <<content, handlers, data>>
        /\ IsCommand(last', "set")
             => \A e \in Members(last'.sel) :
                  /\ getCall(PageNext, e) = Value(Num(last'.args[1]))
                  /\ selectedStars(PageNext, e) = 1..last'.args[1]
        /\ IsCommand(last', "reset")
             => \A e \in Members(last'.sel) :
                  /\ getCall(PageNext, e) = Value(null)
                  /\ selectedStars(PageNext, e) = {}
        /\ IsCommand(last', "disable")
             => \A e \in Members(last'.sel) : isDisabled(PageNext, e)
        /\ IsCommand(last', "enable")
             => \A e \in Members(last'.sel) : ~isDisabled(PageNext, e)
        /\ IsCommand(last', "destroy")
             => \A e \in Members(last'.sel) :
                  /\ ~hasInstance(PageNext, e)
                  /\ content'[e] = <<>>
                  /\ handlers'[e] = <<>>]_vars

\* set(n) has just run on the collection of both widgets and changed the page;
\* both widgets hold the rating n.
C11_Witness ==
  /\ IsCommand(last, "set") /\ Len(last.sel) = 2 /\ last.changed
  /\ \A e \in Members(last.sel) :
       hasInstance(Page, e) /\ get(Page, e) = Num(last.args[1])

\* C12: an operation addressed to one widget, destroy included, leaves every
\* other widget as it was: its content (stars, selected and hover marks, the
\* disabled class), its data (starCount, the rating get() returns) and the
\* handlers bound on its container.
C12_OtherWidgetUntouched ==
  [][\A e \in Containers :
       (hasInstance(Page, e) /\ e \notin Members(last'.sel))
       => /\ content'[e] = content[e]
          /\ handlers'[e] = handlers[e]
          /\ data'[e] = data[e]
          /\ getCall(PageNext, e) = getCall(Page, e)]_vars

\* destroy() has just removed the widget of "a" while the widget of "b" is
\* disabled, rated and hovered.
C12_Witness ==
  /\ IsCommand(last, "destroy") /\ last.sel = <<"a">> /\ last.had
  /\ hasInstance(Page, "b")
  /\ get(Page, "b") # null
  /\ hoveredStars(Page, "b") # {}
  /\ isDisabled(Page, "b")

\* C13: after a mouseover on star i, whatever pointer events came before, exactly
\* stars 1..i carry the hover highlight.
C13_HoverIsPrefix ==
  (IsEvent(last, "mouseover") /\ last.had /\ isStar(Page, last.sel[1], last.target))
  => hoveredStars(Page, last.sel[1]) = 1..last.target[2]

\* C14: after a mouseout on any star, no star of the widget carries the hover
\* highlight.
C14_MouseoutClearsHover ==
  (IsEvent(last, "mouseout") /\ last.had /\ isStar(Page, last.sel[1], last.target))
  => hoveredStars(Page, last.sel[1]) = {}

\* A mouseout on star 1 of a widget with more stars has just removed highlights.
C14_Witness ==
  /\ IsEvent(last, "mouseout") /\ last.had /\ last.changed
  /\ isStar(Page, last.sel[1], last.target)
  /\ last.target[2] = 1
  /\ Len(stars(Page, last.sel[1])) > 1

\* The page after $(e).starRating("disable") and then $(e).starRating("enable").
disableThenEnable(S, e) ==
  starRating(starRating(S, <<e>>, command("disable"), <<>>).page,
             <<e>>, command("enable"), <<>>).page

\* C15: from any state of an initialized widget, disable() then enable() leaves
\* the widget enabled with the same stars and marks, the same rating and the same
\* handlers (the very same page when the widget was enabled before), and every
\* click, mouseover and mouseout then has the effect it had before disable()
\* (for a widget that was disabled before, the same effect on an enabled list).
C15_EnableReversesDisable ==
  \A e \in Containers :
    hasInstance(Page, e) =>
      \A E \in {disableThenEnable(Page, e)} :
        /\ ~isDisabled(E, e)
        /\ stars(E, e) = stars(Page, e)
        /\ getCall(E, e) = getCall(Page, e)
        /\ E.data = Page.data
        /\ E.handlers = Page.handlers
        /\ ~isDisabled(Page, e) => E = Page
        /\ isDisabled(Page, e) =>
             \A t \in Descendants(content[e]),
                type \in {"click", "mouseover", "mouseout"} :
               trigger(E, e, type, t) = enable(trigger(Page, e, type, t), e)

\* enable() has just removed the class that disable() added, on a widget with a
\* rating and a hover highlight.
C15_Witness ==
  /\ IsCommand(last, "enable") /\ last.had /\ last.changed
  /\ get(Page, last.sel[1]) # null
  /\ selectedStars(Page, last.sel[1]) # {}
  /\ hoveredStars(Page, last.sel[1]) # {}

\* The marks show the rating: no star selected when unset, stars 1..rating when
\* the rating is within 1..starCount.
marksMatchRating(S, e) ==
  \/ get(S, e) = null /\ selectedStars(S, e) = {}
  \/ \E n \in 1..starCountOf(S, e) :
       get(S, e) = Num(n) /\ selectedStars(S, e) = 1..n

\* C16: set(n) with n outside 1..starCount records n, so that get() returns n,
\* and leaves the content of the container, hence every star and every selected
\* mark, as it was; the marks then do not match the rating.
C16_OutOfRangeSet ==
  [][(IsCommand(last', "set") /\ hasInstance(Page, last'.sel[1])
        /\ last'.args[1] \notin 1..starCountOf(Page, last'.sel[1]))
     => /\ getCall(PageNext, last'.sel[1]) = Value(Num(last'.args[1]))
        /\ content' = content
        /\ selectedStars(PageNext, last'.sel[1]) = selectedStars(Page, last'.sel[1])
        /\ Len(stars(PageNext, last'.sel[1])) = starCountOf(Page, last'.sel[1])
        /\ ~marksMatchRating(PageNext, last'.sel[1])]_vars

\* set(starCount + 1) has just run on a widget of several stars of which some,
\* not all, are selected.
C16_Witness ==
  /\ IsCommand(last, "set") /\ last.had
  /\ last.args[1] = starCountOf(Page, last.sel[1]) + 1
  /\ selectedStars(Page, last.sel[1]) # {}
  /\ selectedStars(Page, last.sel[1]) # DOMAIN stars(Page, last.sel[1])

\* C17: when every set passes a rating within 1..starCount, in every reachable
\* state of a widget the selected stars are exactly 1..get(), and none is
\* selected when get() is unset.
C17_MarksFollowRating ==
  \A e \in Containers :
    hasInstance(Page, e) =>
      /\ marksMatchRating(Page, e)
      /\ getCall(Page, e) = Value(null) => selectedStars(Page, e) = {}
      /\ \A n \in 0..(MaxStars + 1) :
           getCall(Page, e) = Value(Num(n)) => selectedStars(Page, e) = 1..n

\* A click on star 1 has just changed a disabled widget of several stars under
\* the pointer.
C17_Witness ==
  /\ IsEvent(last, "click") /\ last.had /\ last.changed
  /\ isStar(Page, last.sel[1], last.target)
  /\ last.target[2] = 1
  /\ Len(stars(Page, last.sel[1])) > 1
  /\ hoveredStars(Page, last.sel[1]) # {}
  /\ isDisabled(Page, last.sel[1])

\* The elements of container e that are star i of its widget.
starPaths(S, e, i) ==
  {t \in Descendants(S.content[e]) : isStar(S, e, t) /\ t[2] = i}

\* C18: in every state of an initialized widget and for every i in 1..starCount,
\* a click on star i and set(i) lead to the same page: same selected marks, same
\* rating, same hover marks, same disabled flag.
C18_ClickEqualsSet ==
  \A e \in Containers :
    hasInstance(Page, e) =>
      \A i \in 1..starCountOf(Page, e) :
        /\ starPaths(Page, e, i) # {}
        /\ \A t \in starPaths(Page, e, i) :
             \A C \in {trigger(Page, e, "click", t)},
                T \in {starRating(Page, <<e>>, command("set"), <<i>>).page} :
               /\ selectedStars(C, e) = selectedStars(T, e)
               /\ getCall(C, e) = getCall(T, e)
               /\ hoveredStars(C, e) = hoveredStars(T, e)
               /\ isDisabled(C, e) = isDisabled(T, e)
               /\ C = T

\* A click on the last of several stars has just changed a disabled widget under
\* the pointer.
C18_Witness ==
  /\ IsEvent(last, "click") /\ last.had /\ last.changed
  /\ isStar(Page, last.sel[1], last.target)
  /\ last.target[2] = Len(stars(Page, last.sel[1]))
  /\ last.target[2] > 1
  /\ hoveredStars(Page, last.sel[1]) # {}
  /\ isDisabled(Page, last.sel[1])

\* C19: on an initialized widget, mouseover and mouseout change at most the hover
\* marks; disable and enable change at most the disabled flag; set, click and
\* reset change neither the hover marks nor the disabled flag; get changes
\* nothing.
C19_ComponentsIndependent ==
  [][last'.had =>
       \A e \in Members(last'.sel) :
         /\ (IsEvent(last', "mouseover") \/ IsEvent(last', "mouseout"))
              => /\ selectedStars(PageNext, e) = selectedStars(Page, e)
                 /\ getCall(PageNext, e) = getCall(Page, e)
                 /\ isDisabled(PageNext, e) = isDisabled(Page, e)
                 /\ Len(stars(PageNext, e)) = Len(stars(Page, e))
                 /\ UNCHANGED <<handlers, data>>
         /\ (IsCommand(last', "disable") \/ IsCommand(last', "enable"))
              => /\ stars(PageNext, e) = stars(Page, e)
                 /\ getCall(PageNext, e) = getCall(Page, e)
                 /\ UNCHANGED <<handlers, data>>
         /\ (IsCommand(last', "set") \/ IsCommand(last', "reset")
               \/ IsEvent(last', "click"))
              => /\ hoveredStars(PageNext, e) = hoveredStars(Page, e)
                 /\ isDisabled(PageNext, e) = isDisabled(Page, e)
                 /\ Len(stars(PageNext, e)) = Len(stars(Page, e))
                 /\ UNCHANGED handlers
         /\ IsCommand(last', "get") => UNCHANGED <<content, handlers, data>>]_vars

\* A mouseover has just added a highlight on a disabled widget with a rating.
C19_Witness ==
  /\ IsEvent(last, "mouseover") /\ last.had /\ last.changed
  /\ get(Page, last.sel[1]) # null
  /\ selectedStars(Page, last.sel[1]) # {}
  /\ isDisabled(Page, last.sel[1])

\* The handlers bound on e outside the plugin's event namespace.
hostHandlers(S, e) == SelectSeq(S.handlers[e], LAMBDA h : h.ns # pluginName)

\* The data stored on e under keys other than the instance key.
hostData(S, e) == [k \in DOMAIN S.data[e] \ {pluginKey} |-> S.data[e][k]]

\* C20: destroy() leaves the handlers the host page bound on the container
\* outside the plugin's namespace, and the data the host page stored on it under
\* other keys, as they were.
C20_DestroyKeepsHostState ==
  [][(IsCommand(last', "destroy") /\ last'.had)
     => \A e \in Members(last'.sel) :
          /\ hostHandlers(PageNext, e) = hostHandlers(Page, e)
          /\ hostData(PageNext, e) = hostData(Page, e)]_vars

=============================================================================
